---- MODULE Spec2Model ----
(***************************************************************************)
(* near-lake-supervisor (src/main.go): a watchdog that polls the block     *)
(* height of an indexer and restarts its container when the height stops   *)
(* progressing.                                                            *)
(*                                                                         *)
(* Time is a discrete clock `now`; one unit stands for 30 seconds.  The    *)
(* main goroutine is cut at its blocking calls (the receive on ticker.C,   *)
(* the two HTTP requests, the docker command), so that time may pass and   *)
(* the cooldown goroutine may run between them.  Text is a sequence of     *)
(* one-character strings.                                                  *)
(***************************************************************************)
EXTENDS Integers, Sequences, FiniteSets, TLC

\* ------------------------------------------------------------------ bounds
\* The clock stops at MaxTime (units of 30 s).
MaxTime == 6
\* The blocking calls of one iteration (the HTTP requests and the docker
\* command) take MaxLatency units together at most.
MaxLatency == 1

\* ------------------------------------------------------- program constants
\* var lastBlockHeight int64 = -1
UnknownHeight == -1
\* http.StatusOK
StatusOK == 200

\* ------------------------------------------------------------------- text
Digits == {"0", "1", "2", "3", "4", "5", "6", "7", "8", "9"}

DigitVal(c) ==
    CASE c = "0" -> 0 [] c = "1" -> 1 [] c = "2" -> 2 [] c = "3" -> 3
      [] c = "4" -> 4 [] c = "5" -> 5 [] c = "6" -> 6 [] c = "7" -> 7
      [] c = "8" -> 8 [] c = "9" -> 9

RECURSIVE DigitsValue(_, _)
\* the number a sequence of digits denotes, acc being the value read so far
DigitsValue(s, acc) ==
    IF s = <<>> THEN acc ELSE DigitsValue(Tail(s), 10 * acc + DigitVal(Head(s)))

AllDigits(s) == \A i \in 1..Len(s) : s[i] \in Digits

\* position of the first "." of s, Len(s) + 1 when it has none
DotPos(s) ==
    IF \E i \in 1..Len(s) : s[i] = "."
    THEN CHOOSE i \in 1..Len(s) : s[i] = "." /\ \A j \in 1..(i - 1) : s[j] # "."
    ELSE Len(s) + 1

\* strconv.ParseFloat(s, 64) on decimal text [+-]digits[.digits]: the parsed
\* number as sign, whole part and fraction digits, or an error.
ParseFloat(s) ==
    LET signed == s # <<>> /\ Head(s) \in {"-", "+"}
        body   == IF signed THEN Tail(s) ELSE s
        dot    == DotPos(body)
        whole  == SubSeq(body, 1, dot - 1)
        frac   == SubSeq(body, dot + 1, Len(body))
        ok     == /\ AllDigits(whole)
                  /\ AllDigits(frac)
                  /\ Len(whole) + Len(frac) > 0
    IN  IF ok
        THEN [err |-> FALSE, neg |-> signed /\ Head(s) = "-",
              whole |-> DigitsValue(whole, 0), frac |-> frac]
        ELSE [err |-> TRUE, neg |-> FALSE, whole |-> 0, frac |-> <<>>]

\* int64(value): the conversion truncates toward zero
ToInt64(v) == IF v.neg THEN 0 - v.whole ELSE v.whole

RECURSIVE SplitAcc(_, _, _, _)
SplitAcc(s, sep, cur, acc) ==
    IF s = <<>> THEN Append(acc, cur)
    ELSE IF Head(s) = sep THEN SplitAcc(Tail(s), sep, <<>>, Append(acc, cur))
    ELSE SplitAcc(Tail(s), sep, Append(cur, Head(s)), acc)

\* strings.Split(s, sep) for a one-character separator
Split(s, sep) == SplitAcc(s, sep, <<>>, <<>>)

\* strings.Fields(s): the maximal runs of non-space characters
Fields(s) == SelectSeq(Split(s, " "), LAMBDA f : f # <<>>)

\* strings.HasPrefix(s, prefix)
HasPrefix(s, prefix) ==
    Len(s) >= Len(prefix) /\ SubSeq(s, 1, Len(prefix)) = prefix

\* ---------------------------------------------------------- configuration
\* LoadConfig: the Config the monitor runs with.  Durations are in units of
\* 30 s; ContainerName may be empty; MetricName is the text "m".
Config(interval, timeout, sleep, name) ==
    [QueryInterval |-> interval, StallTimeout |-> timeout, RestartSleep |-> sleep,
     ContainerName |-> name, MetricName |-> <<"m">>]

Configs ==
    { Config(1, 2, 1, "near-lake-indexer"),
      Config(1, 1, 3, "near-lake-indexer"),
      Config(2, 1, 1, "near-lake-indexer"),
      Config(1, 1, 1, "") }

\* ------------------------------------------------- responses of the indexer
JNum    == [t |-> "num", s |-> <<>>]
JStr(s) == [t |-> "str", s |-> s]

\* a reply to GET /api/v1/query: reached or not, HTTP status, whether the body
\* decodes into PrometheusResponse, and the decoded status and result
Reply(transport, code, decodes, status, result) ==
    [transport |-> transport, code |-> code, decodes |-> decodes,
     status |-> status, result |-> result]

Sample(v) == <<[value |-> <<JNum, JStr(v)>>]>>

StructuredReplies ==
    { Reply(FALSE, 0, FALSE, "", <<>>),
      Reply(TRUE, 500, TRUE, "success", Sample(<<"7">>)),
      Reply(TRUE, StatusOK, FALSE, "", <<>>),
      Reply(TRUE, StatusOK, TRUE, "error", <<>>),
      Reply(TRUE, StatusOK, TRUE, "success", <<>>),
      Reply(TRUE, StatusOK, TRUE, "success", <<[value |-> <<>>]>>),
      Reply(TRUE, StatusOK, TRUE, "success", <<[value |-> <<JNum>>]>>),
      Reply(TRUE, StatusOK, TRUE, "success", <<[value |-> <<JNum, JNum>>]>>),
      Reply(TRUE, StatusOK, TRUE, "success", Sample(<<"x">>)) }
    \cup { Reply(TRUE, StatusOK, TRUE, "success", Sample(v)) :
             v \in { <<"1", "0", "0">>, <<"4", "2", ".", "0">>, <<"-", "1">>,
                     <<"-", "2", ".", "5">> } }

\* a reply to GET /metrics: reached or not, HTTP status, whether the body can
\* be read, and the body
TextReply(transport, code, readable, body) ==
    [transport |-> transport, code |-> code, readable |-> readable, body |-> body]

NL == "\n"

TextBodies ==
    { <<>>,
      <<"o", " ", "7">>,
      <<"m", " ", "1", "0", "0">>,
      <<"m", " ", "-", "1">>,
      <<"m", " ", "-", "2", ".", "5">>,
      <<"m", "x", " ", "4", "2", ".", "9">>,
      <<"#", " ", "m", NL, "o", " ", "7", NL, "m", " ", "4", "2", ".", "0">>,
      <<"m", NL, "m", " ", "x", NL, "m", " ", " ", "1", "0", "0", " ", "5">> }

TextReplies ==
    { TextReply(FALSE, 0, FALSE, <<>>),
      TextReply(TRUE, 500, TRUE, <<"m", " ", "7">>),
      TextReply(TRUE, StatusOK, FALSE, <<>>) }
    \cup { TextReply(TRUE, StatusOK, TRUE, b) : b \in TextBodies }

\* ------------------------------------------------------------ MetricFetcher
Fetched(h) == [ok |-> TRUE, height |-> h, err |-> ""]
FetchError(e) == [ok |-> FALSE, height |-> 0, err |-> e]

RECURSIVE ScanLines(_, _)
\* the loop over the lines of the body: the first line that starts with the
\* metric name, has two fields or more and a second field that parses
ScanLines(lines, name) ==
    IF lines = <<>> THEN FetchError("metric not found in response")
    ELSE LET parts == Fields(Head(lines))
         IN  IF /\ HasPrefix(Head(lines), name)
                /\ Len(parts) >= 2
                /\ ~ParseFloat(parts[2]).err
             THEN Fetched(ToInt64(ParseFloat(parts[2])))
             ELSE ScanLines(Tail(lines), name)

queryBlockHeightText(cfg, reply) ==
    IF ~reply.transport THEN FetchError("failed to fetch metrics")
    ELSE IF reply.code # StatusOK THEN FetchError("metrics endpoint returned status")
    ELSE IF ~reply.readable THEN FetchError("failed to read response body")
    ELSE ScanLines(Split(reply.body, NL), cfg.MetricName)

\* StructuredQuery without the test of the HTTP status: the body of an error
\* reply is decoded and used
StructuredQueryAnyStatus(reply) ==
    IF ~reply.transport THEN [kind |-> "fallback", height |-> 0]
    ELSE IF ~reply.decodes THEN [kind |-> "fallback", height |-> 0]
    ELSE IF reply.status # "success" \/ Len(reply.result) = 0
         THEN [kind |-> "fallback", height |-> 0]
    ELSE IF Len(reply.result[1].value) < 2 THEN [kind |-> "panic", height |-> 0]
    ELSE IF reply.result[1].value[2].t # "str" THEN [kind |-> "fallback", height |-> 0]
    ELSE IF ParseFloat(reply.result[1].value[2].s).err
         THEN [kind |-> "fallback", height |-> 0]
    ELSE [kind |-> "value",
          height |-> ToInt64(ParseFloat(reply.result[1].value[2].s))]

\* The structured half of queryBlockHeight: "fallback" where the code returns
\* queryBlockHeightText(config), "panic" where Value[1] is out of range,
\* "value" with the height where it returns int64(value).
StructuredQuery(reply) ==
    IF ~reply.transport THEN [kind |-> "fallback", height |-> 0]
    ELSE IF reply.code # StatusOK THEN [kind |-> "fallback", height |-> 0]
    ELSE IF ~reply.decodes THEN [kind |-> "fallback", height |-> 0]
    ELSE IF reply.status # "success" \/ Len(reply.result) = 0
         THEN [kind |-> "fallback", height |-> 0]
    ELSE IF Len(reply.result[1].value) < 2 THEN [kind |-> "panic", height |-> 0]
    ELSE IF reply.result[1].value[2].t # "str" THEN [kind |-> "fallback", height |-> 0]
    ELSE IF ParseFloat(reply.result[1].value[2].s).err
         THEN [kind |-> "fallback", height |-> 0]
    ELSE [kind |-> "value",
          height |-> ToInt64(ParseFloat(reply.result[1].value[2].s))]

\* what a call of queryBlockHeight ends in
Panic == [ok |-> FALSE, height |-> 0, err |-> "panic: index out of range"]

\* queryBlockHeight(config) as a whole, given what the two endpoints reply
queryBlockHeight(cfg, structured, text) ==
    LET q == StructuredQuery(structured)
    IN  CASE q.kind = "value" -> Fetched(q.height)
          [] q.kind = "fallback" -> queryBlockHeightText(cfg, text)
          [] q.kind = "panic" -> Panic

Heights ==
    { UnknownHeight }
    \cup { StructuredQuery(r).height : r \in StructuredReplies }
    \cup { queryBlockHeightText([MetricName |-> <<"m">>], r).height : r \in TextReplies }

\* ------------------------------------------------------ ContainerRestarter
\* what `docker restart` does within its 30 s context: exit status 0, a
\* non-zero exit status, or killed at the deadline
CmdOutcomes == {"exit0", "exit1", "timeout"}

\* restartContainer(config) gets as far as cmd.Run(): only past the test of
\* the container name
RestartCommandRun(cfg) == cfg.ContainerName # ""

\* restartContainer without the test of the container name: docker is run with
\* an empty name
restartContainerUnchecked(cfg, cmd) ==
    IF cmd # "exit0" THEN "cmd"
    ELSE "ok"

\* restartContainer(config): "ok" for a nil error, "config" when no container
\* is named (the command is not run), "cmd" when the command fails
restartContainer(cfg, cmd) ==
    IF cfg.ContainerName = "" THEN "config"
    ELSE IF cmd # "exit0" THEN "cmd"
    ELSE "ok"

\* -------------------------------------------------------------------- state
VARIABLES
    config,            \* the Config loaded at startup
    probe,             \* a call of queryBlockHeight on its own: the replies
                       \* given and the value returned
    now,               \* the clock
    nextTick,          \* when the ticker fires next
    tickPending,       \* a tick waits in ticker.C (a channel of capacity 1)
    pc,                \* where the main goroutine stands
    started,           \* the initial query is over, the loop runs
    seen,              \* some query has returned a height
    lastBlockHeight,
    lastProgressTime,
    isRestarting,
    timers,            \* wake-up times of the sleeping cooldown goroutines
    \* ---- observation of the run, read by the properties only
    tick,              \* the iteration of the loop in progress or just over
    nFetch,            \* queries completed, the initial one included
    flatRun,           \* every query so far returned one same height, and
                       \* every restart so far succeeded
    incrRun,           \* every query so far returned a height above the last
    onSchedule,        \* every query so far was evaluated at the instant of
                       \* its tick: the initial one at 0, the k-th of the
                       \* loop at k * QueryInterval
    lastRestartAt,     \* when the last successful restart returned, -1: never
    prevRestartAt,     \* when the successful restart before it returned
    lastIncreaseAt,    \* when a height above the recorded one was last seen
    retrying           \* a restart failed and nothing has reset the clock since

monitor == <<lastBlockHeight, lastProgressTime, isRestarting>>
clock   == <<now, nextTick, tickPending>>
observe == <<tick, nFetch, flatRun, incrRun, onSchedule, lastRestartAt,
             prevRestartAt, lastIncreaseAt, retrying>>
vars    == <<config, probe, clock, pc, started, seen, monitor, timers, observe>>

\* kind: what the iteration found; recv: when its tick was received; at: when
\* the height was evaluated; elapsed: time.Since(lastProgressTime) then;
\* height: the height fetched; prevHeight: lastBlockHeight before; attempt:
\* restartContainer was called; restart: what it returned; ran: it ran the
\* docker command; read: the value of isRestarting the iteration read at its
\* start; unknown: no query had returned a height before this one
NoTick ==
    [kind |-> "none", recv |-> 0, at |-> 0, elapsed |-> 0, height |-> 0,
     prevHeight |-> UnknownHeight, attempt |-> FALSE, restart |-> "none",
     ran |-> FALSE, read |-> FALSE, unknown |-> FALSE]

\* no call of queryBlockHeight on its own has been made
NoProbe == [made |-> FALSE]

\* main, lines 38-56: the state before the initial query
Init ==
    /\ config \in Configs
    /\ probe = NoProbe
    /\ now = 0
    /\ nextTick = config.QueryInterval
    /\ tickPending = FALSE
    /\ pc = "query"
    /\ started = FALSE
    /\ seen = FALSE
    /\ lastBlockHeight = UnknownHeight
    /\ lastProgressTime = 0
    /\ isRestarting = FALSE
    /\ timers = <<>>
    /\ tick = NoTick
    /\ nFetch = 0
    /\ flatRun = TRUE
    /\ incrRun = TRUE
    /\ onSchedule = TRUE
    /\ lastRestartAt = -1
    /\ prevRestartAt = -1
    /\ lastIncreaseAt = 0
    /\ retrying = FALSE

\* Since that measures from the start of the process, whatever t
SinceStart(t) == now

\* time.Since(t)
Since(t) == now - t

\* StallExceeded with the comparison weakened to "at least"
StallReached(elapsed, timeout) == elapsed >= timeout

\* the test of lines 77 and 106
StallExceeded(elapsed, timeout) == elapsed > timeout

\* ------------------------------------------------------------------- clock
\* Time passes.  The ticker and the sleeping goroutines are served at their
\* instant, before the clock moves on.
Advance ==
    /\ pc # "crashed"
    /\ now < MaxTime
    /\ now < nextTick
    /\ \A i \in 1..Len(timers) : now < timers[i]
    /\ pc # "wait" => now - tick.recv < MaxLatency
    /\ now' = now + 1
    /\ UNCHANGED <<config, probe, nextTick, tickPending, pc, started, seen, monitor, timers,
                   observe>>

\* time.NewTicker(config.QueryInterval): a tick every QueryInterval, dropped
\* when the previous one has not been received
TickerFire ==
    /\ pc # "crashed"
    /\ now = nextTick
    /\ tickPending' = TRUE
    /\ nextTick' = nextTick + config.QueryInterval
    /\ UNCHANGED <<config, probe, now, pc, started, seen, monitor, timers, observe>>

\* ---------------------------------------------------------------- main loop
\* ReceiveTick without the test of isRestarting: the tick is always evaluated
ReceiveTickUnguarded ==
    /\ pc = "wait"
    /\ tickPending
    /\ tickPending' = FALSE
    /\ pc' = "query"
    /\ tick' = [NoTick EXCEPT !.kind = "query", !.recv = now, !.at = now,
                  !.prevHeight = lastBlockHeight, !.read = isRestarting,
                  !.unknown = ~seen]
    /\ UNCHANGED <<config, probe, now, nextTick, started, seen, monitor, timers, nFetch,
                   flatRun, incrRun, onSchedule, lastRestartAt, prevRestartAt, lastIncreaseAt,
                   retrying>>

\* for range ticker.C { if isRestarting { continue } ...
ReceiveTick ==
    /\ pc = "wait"
    /\ tickPending
    /\ tickPending' = FALSE
    /\ pc' = IF isRestarting THEN "wait" ELSE "query"
    /\ tick' = [NoTick EXCEPT !.kind = IF isRestarting THEN "skip" ELSE "query",
                  !.recv = now, !.at = now, !.prevHeight = lastBlockHeight,
                  !.read = isRestarting, !.unknown = ~seen]
    /\ UNCHANGED <<config, probe, now, nextTick, started, seen, monitor, timers, nFetch,
                   flatRun, incrRun, onSchedule, lastRestartAt, prevRestartAt, lastIncreaseAt,
                   retrying>>

\* the initial query, lines 58-65, once queryBlockHeight has returned res
InitialQuery(res) ==
    /\ started' = TRUE
    /\ pc' = "wait"
    /\ nFetch' = nFetch + 1
    /\ seen' = res.ok
    /\ onSchedule' = (onSchedule /\ now = nFetch * config.QueryInterval)
    /\ IF res.ok
       THEN /\ lastBlockHeight' = res.height
            /\ lastProgressTime' = now
            /\ lastIncreaseAt' = now
            /\ UNCHANGED <<flatRun, incrRun>>
       ELSE /\ flatRun' = FALSE
            /\ incrRun' = FALSE
            /\ UNCHANGED <<lastBlockHeight, lastProgressTime, lastIncreaseAt>>
    /\ tick' = [NoTick EXCEPT !.kind = IF res.ok THEN "first" ELSE "nofirst",
                  !.at = now, !.height = res.height, !.unknown = TRUE]
    /\ UNCHANGED <<config, probe, clock, isRestarting, timers, lastRestartAt, prevRestartAt, retrying>>

\* HandleFetchError that logs the error and goes on, without the stall test
HandleFetchErrorLogOnly ==
    /\ pc' = "wait"
    /\ tick' = [tick EXCEPT !.kind = "fail", !.at = now,
                  !.elapsed = Since(lastProgressTime)]
    /\ nFetch' = nFetch + 1
    /\ onSchedule' = (onSchedule /\ now = nFetch * config.QueryInterval)
    /\ flatRun' = FALSE
    /\ incrRun' = FALSE
    /\ UNCHANGED <<config, probe, clock, started, seen, monitor, timers, lastRestartAt, prevRestartAt,
                   lastIncreaseAt, retrying>>

\* the loop body when queryBlockHeight returned an error, lines 74-92 up to
\* the call of restartContainer
HandleFetchError ==
    /\ LET attempt == StallExceeded(Since(lastProgressTime), config.StallTimeout)
       IN  /\ pc' = IF attempt THEN "restartF" ELSE "wait"
           /\ tick' = [tick EXCEPT !.kind = "fail", !.at = now,
                         !.elapsed = Since(lastProgressTime),
                         !.attempt = attempt,
                         !.restart = IF attempt THEN "running" ELSE "none"]
    /\ nFetch' = nFetch + 1
    /\ onSchedule' = (onSchedule /\ now = nFetch * config.QueryInterval)
    /\ flatRun' = FALSE
    /\ incrRun' = FALSE
    /\ UNCHANGED <<config, probe, clock, started, seen, monitor, timers, lastRestartAt, prevRestartAt,
                   lastIncreaseAt, retrying>>

\* Progressing with the stall test made before the clock is reset
ProgressingWithStallTest(height) ==
    LET attempt == StallExceeded(Since(lastProgressTime), config.StallTimeout)
    IN  /\ lastBlockHeight' = height
        /\ lastProgressTime' = now
        /\ pc' = IF attempt THEN "restartS" ELSE "wait"
        /\ tick' = [tick EXCEPT !.kind = "up", !.at = now,
                      !.elapsed = Since(lastProgressTime), !.height = height,
                      !.attempt = attempt,
                      !.restart = IF attempt THEN "running" ELSE "none"]
        /\ flatRun' = FALSE
        /\ lastIncreaseAt' = now
        /\ retrying' = FALSE
        /\ UNCHANGED incrRun

\* if blockHeight > lastBlockHeight { ... }, lines 96-100
Progressing(height) ==
    /\ lastBlockHeight' = height
    /\ lastProgressTime' = now
    /\ pc' = "wait"
    /\ tick' = [tick EXCEPT !.kind = "up", !.at = now,
                  !.elapsed = Since(lastProgressTime), !.height = height]
    /\ flatRun' = FALSE
    /\ lastIncreaseAt' = now
    /\ retrying' = FALSE
    /\ UNCHANGED incrRun

\* Stalled that restarts the stall clock on a sample below the threshold
StalledResetsClock(height) ==
    LET stallDuration == Since(lastProgressTime)
        attempt == StallExceeded(stallDuration, config.StallTimeout)
    IN  /\ pc' = IF attempt THEN "restartS" ELSE "wait"
        /\ tick' = [tick EXCEPT !.kind = "flat", !.at = now,
                      !.elapsed = stallDuration, !.height = height,
                      !.attempt = attempt,
                      !.restart = IF attempt THEN "running" ELSE "none"]
        /\ incrRun' = FALSE
        /\ lastProgressTime' = IF attempt THEN lastProgressTime ELSE now
        /\ UNCHANGED <<lastBlockHeight, flatRun, lastIncreaseAt, retrying>>

\* else if blockHeight == lastBlockHeight { ... }, lines 101-119 up to the
\* call of restartContainer
Stalled(height) ==
    LET stallDuration == Since(lastProgressTime)
        attempt == StallExceeded(stallDuration, config.StallTimeout)
    IN  /\ pc' = IF attempt THEN "restartS" ELSE "wait"
        /\ tick' = [tick EXCEPT !.kind = "flat", !.at = now,
                      !.elapsed = stallDuration, !.height = height,
                      !.attempt = attempt,
                      !.restart = IF attempt THEN "running" ELSE "none"]
        /\ incrRun' = FALSE
        /\ UNCHANGED <<lastBlockHeight, lastProgressTime, flatRun,
                       lastIncreaseAt, retrying>>

\* Decreased handled as a stall: the lower height is recorded, the clock is
\* kept and the stall test is made
DecreasedAsStall(height) ==
    LET attempt == StallExceeded(Since(lastProgressTime), config.StallTimeout)
    IN  /\ lastBlockHeight' = height
        /\ pc' = IF attempt THEN "restartS" ELSE "wait"
        /\ tick' = [tick EXCEPT !.kind = "down", !.at = now,
                      !.elapsed = Since(lastProgressTime), !.height = height,
                      !.attempt = attempt,
                      !.restart = IF attempt THEN "running" ELSE "none"]
        /\ flatRun' = FALSE
        /\ incrRun' = FALSE
        /\ UNCHANGED <<lastProgressTime, lastIncreaseAt, retrying>>

\* Decreased that records the lower height and keeps the clock
DecreasedKeepClock(height) ==
    /\ lastBlockHeight' = height
    /\ pc' = "wait"
    /\ tick' = [tick EXCEPT !.kind = "down", !.at = now,
                  !.elapsed = Since(lastProgressTime), !.height = height]
    /\ flatRun' = FALSE
    /\ incrRun' = FALSE
    /\ retrying' = FALSE
    /\ UNCHANGED <<lastProgressTime, lastIncreaseAt>>

\* else { ... }: the height decreased, lines 120-125
Decreased(height) ==
    /\ lastBlockHeight' = height
    /\ lastProgressTime' = now
    /\ pc' = "wait"
    /\ tick' = [tick EXCEPT !.kind = "down", !.at = now,
                  !.elapsed = Since(lastProgressTime), !.height = height]
    /\ flatRun' = FALSE
    /\ incrRun' = FALSE
    /\ retrying' = FALSE
    /\ UNCHANGED lastIncreaseAt

\* HandleHeight with the first comparison written >=: an equal height counts
\* as progress
HandleHeightNotBelow(height) ==
    /\ nFetch' = nFetch + 1
    /\ seen' = TRUE
    /\ onSchedule' = (onSchedule /\ now = nFetch * config.QueryInterval)
    /\ IF height >= lastBlockHeight THEN Progressing(height)
       ELSE Decreased(height)
    /\ UNCHANGED <<config, probe, clock, started, isRestarting, timers, lastRestartAt, prevRestartAt>>

\* the loop body when queryBlockHeight returned a height, lines 94-125
HandleHeight(height) ==
    /\ nFetch' = nFetch + 1
    /\ seen' = TRUE
    /\ onSchedule' = (onSchedule /\ now = nFetch * config.QueryInterval)
    /\ IF height > lastBlockHeight THEN Progressing(height)
       ELSE IF height = lastBlockHeight THEN Stalled(height)
       ELSE Decreased(height)
    /\ UNCHANGED <<config, probe, clock, started, isRestarting, timers, lastRestartAt, prevRestartAt>>

\* what main does with the value queryBlockHeight returns
Returned(res) ==
    IF ~started THEN InitialQuery(res)
    ELSE IF ~res.ok THEN HandleFetchError
    ELSE HandleHeight(res.height)

\* queryBlockHeight: the structured query, up to its return to main, its panic
\* or its call of queryBlockHeightText
QueryBlockHeight ==
    /\ pc = "query"
    /\ \E reply \in StructuredReplies :
         LET q == StructuredQuery(reply)
         IN  CASE q.kind = "value" -> Returned(Fetched(q.height))
               [] q.kind = "fallback" ->
                    /\ pc' = "queryText"
                    /\ UNCHANGED <<config, probe, clock, started, seen, monitor, timers, observe>>
               [] q.kind = "panic" ->
                    /\ pc' = "crashed"
                    /\ UNCHANGED <<config, probe, clock, started, seen, monitor, timers, observe>>

\* queryBlockHeightText, called as the fallback, and its return to main
QueryBlockHeightText ==
    /\ pc = "queryText"
    /\ \E reply \in TextReplies : Returned(queryBlockHeightText(config, reply))

\* TriggerRestart that forgets isRestarting = true
TriggerRestartNoCooldown(cmd) ==
    LET err == restartContainer(config, cmd)
    IN  /\ IF err = "ok"
           THEN /\ lastProgressTime' = now
                /\ timers' = Append(timers, now + config.RestartSleep)
                /\ lastRestartAt' = now
                /\ prevRestartAt' = lastRestartAt
                /\ retrying' = FALSE
                /\ UNCHANGED <<flatRun, isRestarting>>
           ELSE /\ flatRun' = FALSE
                /\ retrying' = TRUE
                /\ UNCHANGED <<isRestarting, lastProgressTime, timers, lastRestartAt, prevRestartAt>>
        /\ tick' = [tick EXCEPT !.restart = err,
                      !.ran = RestartCommandRun(config)]
        /\ pc' = "wait"
        /\ UNCHANGED <<config, probe, clock, started, seen, lastBlockHeight, nFetch, incrRun,
                       onSchedule, lastIncreaseAt>>

\* TriggerRestart that forgets lastProgressTime = time.Now()
TriggerRestartKeepClock(cmd) ==
    LET err == restartContainer(config, cmd)
    IN  /\ IF err = "ok"
           THEN /\ isRestarting' = TRUE
                /\ timers' = Append(timers, now + config.RestartSleep)
                /\ lastRestartAt' = now
                /\ prevRestartAt' = lastRestartAt
                /\ retrying' = FALSE
                /\ UNCHANGED <<flatRun, lastProgressTime>>
           ELSE /\ flatRun' = FALSE
                /\ retrying' = TRUE
                /\ UNCHANGED <<isRestarting, lastProgressTime, timers, lastRestartAt, prevRestartAt>>
        /\ tick' = [tick EXCEPT !.restart = err,
                      !.ran = RestartCommandRun(config)]
        /\ pc' = "wait"
        /\ UNCHANGED <<config, probe, clock, started, seen, lastBlockHeight, nFetch, incrRun,
                       onSchedule, lastIncreaseAt>>

\* TriggerRestart with lastProgressTime = time.Now() written before the test
\* of the error
TriggerRestartResetOnError(cmd) ==
    LET err == restartContainer(config, cmd)
    IN  /\ lastProgressTime' = now
        /\ IF err = "ok"
           THEN /\ isRestarting' = TRUE
                /\ timers' = Append(timers, now + config.RestartSleep)
                /\ lastRestartAt' = now
                /\ prevRestartAt' = lastRestartAt
                /\ retrying' = FALSE
                /\ UNCHANGED flatRun
           ELSE /\ flatRun' = FALSE
                /\ retrying' = TRUE
                /\ UNCHANGED <<isRestarting, timers, lastRestartAt, prevRestartAt>>
        /\ tick' = [tick EXCEPT !.restart = err,
                      !.ran = RestartCommandRun(config)]
        /\ pc' = "wait"
        /\ UNCHANGED <<config, probe, clock, started, seen, lastBlockHeight, nFetch, incrRun,
                       onSchedule, lastIncreaseAt>>

\* if err := restartContainer(config); err != nil { log } else { isRestarting =
\* true; lastProgressTime = time.Now(); go func() { ... }() }
TriggerRestart(cmd) ==
    LET err == restartContainer(config, cmd)
    IN  /\ IF err = "ok"
           THEN /\ isRestarting' = TRUE
                /\ lastProgressTime' = now
                /\ timers' = Append(timers, now + config.RestartSleep)
                /\ lastRestartAt' = now
                /\ prevRestartAt' = lastRestartAt
                /\ retrying' = FALSE
                /\ UNCHANGED flatRun
           ELSE /\ flatRun' = FALSE
                /\ retrying' = TRUE
                /\ UNCHANGED <<isRestarting, lastProgressTime, timers, lastRestartAt, prevRestartAt>>
        /\ tick' = [tick EXCEPT !.restart = err,
                      !.ran = RestartCommandRun(config)]
        /\ pc' = "wait"
        /\ UNCHANGED <<config, probe, clock, started, seen, lastBlockHeight, nFetch, incrRun,
                       onSchedule, lastIncreaseAt>>

\* lines 79-89
RestartOnFailure ==
    /\ pc = "restartF"
    /\ \E cmd \in CmdOutcomes : TriggerRestart(cmd)

\* lines 108-118
RestartOnStall ==
    /\ pc = "restartS"
    /\ \E cmd \in CmdOutcomes : TriggerRestart(cmd)

\* CooldownExpire whose goroutine ends without isRestarting = false
CooldownExpireNoClear ==
    /\ pc # "crashed"
    /\ \E i \in 1..Len(timers) :
         /\ timers[i] <= now
         /\ timers' = SubSeq(timers, 1, i - 1) \o SubSeq(timers, i + 1, Len(timers))
    /\ UNCHANGED <<config, probe, clock, pc, started, seen, monitor, observe>>

\* CooldownExpire that does not wait for the end of time.Sleep
CooldownExpireEarly ==
    /\ pc # "crashed"
    /\ \E i \in 1..Len(timers) :
         timers' = SubSeq(timers, 1, i - 1) \o SubSeq(timers, i + 1, Len(timers))
    /\ isRestarting' = FALSE
    /\ UNCHANGED <<config, probe, clock, pc, started, seen, lastBlockHeight, lastProgressTime,
                   observe>>

\* go func() { time.Sleep(config.RestartSleep); isRestarting = false }()
CooldownExpire ==
    /\ pc # "crashed"
    /\ \E i \in 1..Len(timers) :
         /\ timers[i] <= now
         /\ timers' = SubSeq(timers, 1, i - 1) \o SubSeq(timers, i + 1, Len(timers))
    /\ isRestarting' = FALSE
    /\ UNCHANGED <<config, probe, clock, pc, started, seen, lastBlockHeight, lastProgressTime,
                   observe>>

Next ==
    \/ Advance
    \/ TickerFire
    \/ ReceiveTick
    \/ QueryBlockHeight
    \/ QueryBlockHeightText
    \/ RestartOnFailure
    \/ RestartOnStall
    \/ CooldownExpire

Spec == Init /\ [][Next]_vars

\* queryBlockHeight called on its own, with each pair of replies of the two
\* endpoints
ProbeQuery ==
    /\ \E structured \in StructuredReplies, text \in TextReplies :
         probe' = [made |-> TRUE, structured |-> structured, text |-> text,
                   out |-> queryBlockHeight(config, structured, text)]
    /\ UNCHANGED <<clock, pc, started, seen, monitor, timers, observe, config>>

FetchSpec == Init /\ [][ProbeQuery]_vars

TypeOK ==
    /\ config \in Configs
    /\ now \in 0..MaxTime
    /\ nextTick \in 1..(MaxTime + 2)
    /\ tickPending \in BOOLEAN
    /\ pc \in {"query", "queryText", "wait", "restartF", "restartS", "crashed"}
    /\ started \in BOOLEAN
    /\ seen \in BOOLEAN
    /\ prevRestartAt \in -1..MaxTime
    /\ lastBlockHeight \in Heights
    /\ lastProgressTime \in 0..MaxTime
    /\ isRestarting \in BOOLEAN
    /\ \A i \in 1..Len(timers) : timers[i] \in 0..(MaxTime + 3)

\* =============================================================== properties
\* the iteration fetched, or fetched a height
Evaluated == tick.kind \in {"fail", "up", "flat", "down"}
GotHeight == tick.kind \in {"up", "flat", "down"}
\* the height fetched against the height recorded before
Higher == GotHeight /\ tick.height > tick.prevHeight
Same   == GotHeight /\ tick.height = tick.prevHeight
Lower  == GotHeight /\ tick.height < tick.prevHeight
\* lastProgressTime as the iteration found it
ProgressBefore == tick.at - tick.elapsed
\* restartContainer has been called and has not returned
Restarting == pc \in {"restartF", "restartS"}

\* C1: while every query returns one same height and every restart succeeds,
\* an iteration calls restartContainer exactly when its stall duration is
\* above StallTimeout (so the first such iteration does), the call is made
\* only with no cooldown pending, and while a cooldown is pending every
\* iteration is skipped: one restart per stall, none before the cooldown is
\* over and a later iteration finds the stall duration above StallTimeout.
C1_OneRestartPerStall ==
    flatRun =>
        /\ Evaluated => Same /\ (tick.attempt <=> tick.elapsed > config.StallTimeout)
        /\ Restarting =>
             /\ timers = <<>>
             /\ ~isRestarting
             /\ tick.at - lastProgressTime > config.StallTimeout
        /\ tick.restart \in {"none", "running", "ok"}
        /\ timers # <<>> =>
             /\ Len(timers) = 1
             /\ isRestarting
             /\ pc = "wait"
             /\ tick.kind = "skip" \/ tick.restart = "ok"

\* a second stall of a flat run has been detected after a first restart
C1_Witness ==
    /\ flatRun
    /\ lastRestartAt >= 0
    /\ pc = "restartS"

\* C2: while isRestarting is true the main goroutine neither fetches nor
\* restarts (every tick it receives is skipped), and isRestarting is true only
\* from a successful restart to the wake-up of that restart's cooldown
\* goroutine.
C2_CooldownSkips ==
    isRestarting =>
        /\ pc = "wait"
        /\ tick.kind = "skip" \/ (Evaluated /\ tick.restart = "ok")
        /\ lastRestartAt >= 0
        /\ timers = <<lastRestartAt + config.RestartSleep>>
        /\ now <= lastRestartAt + config.RestartSleep

\* a tick was received and skipped during a cooldown
C2_Witness ==
    /\ isRestarting
    /\ tick.kind = "skip"

\* C3: while every query so far succeeded with a height above the one before,
\* restartContainer has never been called.
C3_NoRestartWhileIncreasing ==
    incrRun =>
        /\ ~tick.attempt
        /\ ~Restarting
        /\ tick.restart = "none"
        /\ lastRestartAt = -1
        /\ ~retrying
        /\ ~isRestarting
        /\ timers = <<>>

\* three increasing heights, the last one seen more than StallTimeout after
\* the one before
C3_Witness ==
    /\ incrRun
    /\ nFetch >= 3
    /\ Higher
    /\ tick.elapsed > config.StallTimeout

\* C4: an iteration whose fetch fails calls restartContainer exactly when
\* time.Since(lastProgressTime) is above StallTimeout, the same clock the flat
\* heights are measured on (it is reset by nothing but a change of height or a
\* successful restart), and leaves lastBlockHeight alone.
C4_FailuresShareStallClock ==
    tick.kind = "fail" =>
        /\ tick.attempt <=> tick.elapsed > config.StallTimeout
        /\ tick.attempt <=> tick.restart # "none"
        /\ lastBlockHeight = tick.prevHeight
        /\ tick.restart # "ok" => lastProgressTime = ProgressBefore

\* a fetch failure after a height was recorded, with the clock above
\* StallTimeout: the restart is attempted
C4_Witness ==
    /\ tick.kind = "fail"
    /\ tick.attempt
    /\ lastBlockHeight # UnknownHeight
    /\ nFetch >= 3

\* C5: a successful restart sets lastProgressTime to the time of the restart,
\* and an iteration that sees the height unchanged after it calls
\* restartContainer only more than StallTimeout after that restart.
C5_RestartResetsClock ==
    /\ tick.restart = "ok" => lastProgressTime = lastRestartAt
    /\ lastRestartAt >= 0 => lastProgressTime >= lastRestartAt
    /\ (Same /\ tick.restart = "running" /\ lastRestartAt >= 0) =>
           tick.at - lastRestartAt > config.StallTimeout

\* the unchanged height is seen again after a restart and its cooldown, and
\* no restart is attempted yet
C5_Witness ==
    /\ lastRestartAt >= 0
    /\ Same
    /\ ~tick.attempt
    /\ tick.at > lastRestartAt

\* C6: an iteration that fetches a height below lastBlockHeight does not call
\* restartContainer, records the lower height and sets lastProgressTime to
\* the time of the iteration.
C6_DecreaseIsProgress ==
    Lower =>
        /\ ~tick.attempt
        /\ tick.restart = "none"
        /\ pc = "wait"
        /\ lastBlockHeight = tick.height
        /\ lastProgressTime = tick.at

\* a lower height seen when the clock was above StallTimeout
C6_Witness ==
    /\ Lower
    /\ tick.elapsed > config.StallTimeout

\* C7 as claimed: lastProgressTime changes in a step only if the step raises
\* lastBlockHeight or records the first height fetched, and a step that
\* raises lastBlockHeight sets it.
C7_ClockOnlyOnIncrease ==
    [][ LET raised == lastBlockHeight' > lastBlockHeight
            newly  == /\ lastBlockHeight = UnknownHeight
                      /\ tick' # tick
                      /\ tick'.kind \in {"first", "up", "flat", "down"}
        IN  /\ lastProgressTime' # lastProgressTime => raised \/ newly
            /\ raised => lastProgressTime' = now ]_vars

\* C7, amended: a step sets lastProgressTime, to the time of the step, if and
\* only if it is the initial query succeeding, a fetch of the loop returning
\* a height other than lastBlockHeight (above or below), or a restart
\* succeeding; every other step leaves it unchanged.
C7_ClockResets ==
    [][ LET first     == tick.kind = "none" /\ tick'.kind = "first"
            changed   == /\ tick.kind = "query"
                         /\ tick'.kind \in {"up", "flat", "down"}
                         /\ tick'.height # lastBlockHeight
            restarted == tick.restart = "running" /\ tick'.restart = "ok"
        IN  IF first \/ changed \/ restarted
            THEN lastProgressTime' = now
            ELSE lastProgressTime' = lastProgressTime ]_vars

\* a successful restart has moved lastProgressTime, the height being the same
C7_Witness ==
    /\ tick.restart = "ok"
    /\ Same
    /\ lastProgressTime > ProgressBefore

\* the heights 100, 100, 100, ... fetched exactly every 30 s (one unit), the
\* first by the initial query, with StallTimeout = 60 s
C8_Scenario ==
    /\ config.QueryInterval = 1
    /\ config.StallTimeout = 2
    /\ flatRun
    /\ onSchedule
    /\ lastBlockHeight = 100
    /\ Evaluated

\* C8 as claimed: no restart at sample 2, a restart at sample 3.
C8_RestartAtThirdSample ==
    C8_Scenario =>
        /\ nFetch = 2 => ~tick.attempt
        /\ nFetch = 3 => tick.attempt

\* C8, amended: no restart at sample 2 (stall duration 30 s) nor at sample 3,
\* whose stall duration of exactly 60 s is not above StallTimeout; the restart
\* is attempted at sample 4 (90 s).
C8_RestartAtFourthSample ==
    C8_Scenario =>
        /\ nFetch = 2 => tick.elapsed = 1 /\ ~tick.attempt
        /\ nFetch = 3 => tick.elapsed = 2 /\ ~tick.attempt
        /\ nFetch = 4 => tick.elapsed = 3 /\ tick.attempt

\* the fourth sample, 90 s after the first: the restart is attempted
C8_Witness ==
    /\ C8_Scenario
    /\ nFetch = 4
    /\ tick.attempt

C10_FailedRestartRetries ==
    /\ tick.restart \in {"config", "cmd"} =>
         /\ lastBlockHeight = tick.prevHeight
         /\ lastProgressTime = ProgressBefore
         /\ ~isRestarting
         /\ timers = <<>>
         /\ retrying
    /\ retrying =>
         /\ ~isRestarting
         /\ timers = <<>>
         /\ tick.kind # "skip"
         /\ (Evaluated /\ ~Higher /\ ~Lower) =>
                tick.attempt /\ tick.elapsed > config.StallTimeout

\* restartContainer is called again after a failed restart
C10_Witness ==
    /\ retrying
    /\ tick.restart = "running"

\* C11: with an empty container name, restartContainer returns its
\* configuration error without running the docker command: whenever it has
\* been called it returned that error and nothing else, the command was not
\* run, isRestarting is false with no cooldown goroutine started (and never
\* was otherwise), and lastProgressTime is what the iteration found.
C11_EmptyNameNoRestart ==
    config.ContainerName = "" =>
        /\ ~isRestarting
        /\ timers = <<>>
        /\ lastRestartAt = -1
        /\ ~tick.ran
        /\ tick.restart \in {"none", "running", "config"}
        /\ tick.restart = "config" =>
             /\ tick.attempt
             /\ pc = "wait"
             /\ lastProgressTime = ProgressBefore

\* a stalled iteration has called restartContainer with no container named
C11_Witness ==
    /\ config.ContainerName = ""
    /\ tick.kind = "flat"
    /\ tick.attempt
    /\ tick.restart = "config"
    /\ ~tick.ran

\* the failure modes of the structured query, read off the reply itself:
\* transport failure, a status other than 200, a body that does not decode, a
\* status field other than "success", an empty result, a sample whose value
\* is not a string or is a string that is not a number
StructuredFailure(reply) ==
    \/ ~reply.transport
    \/ reply.code # StatusOK
    \/ ~reply.decodes
    \/ reply.status # "success"
    \/ Len(reply.result) = 0
    \/ /\ Len(reply.result[1].value) >= 2
       /\ \/ reply.result[1].value[2].t # "str"
          \/ ParseFloat(reply.result[1].value[2].s).err

\* C12: when the structured query fails in one of its failure modes,
\* queryBlockHeight returns exactly what queryBlockHeightText returns for the
\* reply of the text endpoint: its height when it finds one, its error when
\* it fails too.
C12_FallbackReturnsTextResult ==
    (probe.made /\ StructuredFailure(probe.structured)) =>
        probe.out = queryBlockHeightText(config, probe.text)

\* the structured endpoint answers 500 with a well-formed sample in its body,
\* the text endpoint has the line "m 42.0": the call returns 42
C12_Witness ==
    /\ probe.made
    /\ probe.structured.transport
    /\ probe.structured.code = 500
    /\ probe.text.transport
    /\ probe.text.code = StatusOK
    /\ probe.text.readable
    /\ \E i \in 1..Len(Split(probe.text.body, NL)) :
         Split(probe.text.body, NL)[i] = <<"m", " ", "4", "2", ".", "0">>
    /\ probe.out = Fetched(42)

\* C13: no reply of the structured endpoint and no result of restartContainer
\* ends the polling loop: the process never dies in queryBlockHeight or in
\* the handling of a restart error.
C13_LoopNeverTerminates == pc # "crashed"

\* the main goroutine takes a tick out of ticker.C
TickReceived == tickPending /\ ~tickPending'

\* C14: after a successful restart the cooldown ends RestartSleep later, by
\* its goroutine and by nothing else, without blocking the loop.  In every
\* step: while isRestarting is true a cooldown goroutine sleeps until
\* RestartSleep after the restart, that instant is not passed, and the main
\* goroutine waits on the ticker; isRestarting goes from true to false only
\* at that instant, in a step that ends the sleeping goroutine and leaves the
\* main goroutine where it was; a tick received while isRestarting is true is
\* consumed with nothing fetched and nothing written, the loop back on the
\* ticker; a tick received while it is false, hence the first one after the
\* expiry, goes on to queryBlockHeight.
C14_CooldownEnds ==
    [][ /\ isRestarting' =>
             /\ Len(timers') >= 1
             /\ timers'[1] = lastRestartAt' + config.RestartSleep
             /\ now' <= timers'[1]
             /\ pc' = "wait"
        /\ (isRestarting /\ ~isRestarting') =>
             /\ now = lastRestartAt + config.RestartSleep
             /\ Len(timers') = Len(timers) - 1
             /\ pc' = pc
             /\ tick' = tick
             /\ tickPending' = tickPending
        /\ (TickReceived /\ isRestarting) =>
             /\ pc' = "wait"
             /\ tick'.kind = "skip"
             /\ nFetch' = nFetch
             /\ UNCHANGED <<monitor, timers>>
        /\ (TickReceived /\ ~isRestarting) =>
             /\ pc' = "query"
             /\ tick'.kind = "query"
      ]_vars

\* a cooldown is over and the first tick received after it is being fetched
C14_Witness ==
    /\ lastRestartAt >= 0
    /\ ~isRestarting
    /\ timers = <<>>
    /\ pc = "query"
    /\ tick.kind = "query"
    /\ ~tick.read
    /\ tick.recv >= lastRestartAt + config.RestartSleep
    /\ tick.recv < lastRestartAt + config.RestartSleep + config.QueryInterval

\* C15: the time spent in a cooldown is not counted as stall time.  An
\* iteration that fetches after a successful restart, with lastProgressTime
\* not written since that restart, and that finds a failure or an unchanged
\* height, calls restartContainer only if the time since the END of the
\* cooldown is above StallTimeout; so the first iteration after a cooldown
\* does not restart on one flat sample or one failure alone.
C15_CooldownNotCounted ==
    ( /\ Evaluated
      /\ tick.kind = "fail" \/ Same
      /\ lastRestartAt >= 0
      /\ ProgressBefore = lastRestartAt
      /\ tick.at - (lastRestartAt + config.RestartSleep) <= config.StallTimeout )
    => ~tick.attempt

\* the iteration is between its receipt of the tick and its return to it
InIteration == pc \in {"query", "queryText", "restartF", "restartS"}

\* C16: each iteration uses one value of isRestarting, the one it reads at
\* its start.  An iteration that read true has done nothing else: nothing
\* fetched, no call of restartContainer, the recorded height and the stall
\* clock as they were, the loop back on the ticker.  An iteration that read
\* false goes through unaffected by the cooldown goroutine: while it is under
\* way no such goroutine is pending, so isRestarting keeps the value read
\* until the iteration itself sets it, and in no step taken in the middle of
\* an iteration does the flag change except by the iteration's own
\* successful restart.
C16_OneReadPerTick ==
    [][ /\ tick'.kind = "skip" <=> (tick'.kind # "none" /\ tick'.read)
        /\ tick'.read =>
             /\ pc' = "wait"
             /\ ~tick'.attempt
             /\ tick'.restart = "none"
             /\ lastBlockHeight' = tick'.prevHeight
             /\ TickReceived \/ UNCHANGED <<lastBlockHeight, lastProgressTime,
                                            nFetch, tick>>
        /\ InIteration' => (~tick'.read /\ ~isRestarting' /\ timers' = <<>>)
        /\ (InIteration /\ isRestarting' # isRestarting) =>
             /\ Restarting
             /\ tick'.restart = "ok"
             /\ isRestarting'
      ]_vars

\* the cooldown goroutine and the loop act at one same instant: the tick was
\* received at the instant the cooldown ends, the iteration read true and
\* was skipped, and the flag has been cleared since
C16_Witness ==
    /\ tick.kind = "skip"
    /\ tick.read
    /\ tick.recv = lastRestartAt + config.RestartSleep
    /\ now = tick.recv
    /\ ~isRestarting
    /\ pc = "wait"

\* C17: an iteration outside a cooldown whose fetch fails or returns the
\* recorded height calls restartContainer exactly when the time since
\* lastProgressTime is strictly above StallTimeout; when it is at or below
\* StallTimeout nothing is called and lastBlockHeight, lastProgressTime and
\* isRestarting are what the iteration found.
C17_StrictThreshold ==
    (tick.kind = "fail" \/ Same) =>
        /\ ~tick.read
        /\ tick.elapsed > config.StallTimeout =>
             /\ tick.attempt
             /\ tick.restart # "none"
             /\ Restarting \/ tick.restart \in {"ok", "config", "cmd"}
        /\ tick.elapsed <= config.StallTimeout =>
             /\ ~tick.attempt
             /\ tick.restart = "none"
             /\ ~tick.ran
             /\ pc = "wait"
             /\ lastBlockHeight = tick.prevHeight
             /\ lastProgressTime = ProgressBefore
             /\ ~isRestarting
             /\ timers = <<>>

\* the boundary: a height equal to the recorded one, found exactly
\* StallTimeout after lastProgressTime, restarts nothing
C17_Witness ==
    /\ Same
    /\ tick.prevHeight # UnknownHeight
    /\ tick.elapsed = config.StallTimeout
    /\ ~tick.attempt
    /\ pc = "wait"

\* C18: while no query has returned a height, the first query that returns
\* one is handled as progress whatever the height: lastBlockHeight is that
\* height, lastProgressTime is the time of the iteration, and restartContainer
\* is not called.
C18_FirstHeightIsProgress ==
    (tick.unknown /\ tick.kind \in {"first", "up", "flat", "down"}) =>
        /\ lastBlockHeight = tick.height
        /\ lastProgressTime = tick.at
        /\ ~tick.attempt

\* C19: at most one cooldown goroutine is pending, and one is pending exactly
\* when isRestarting is true: the one started by the last successful restart,
\* due RestartSleep after it.  So isRestarting is never cleared by a
\* goroutine left over from an earlier restart: once a restart has succeeded,
\* isRestarting is true until RestartSleep after it and false from then on,
\* and a later restart finds no goroutine pending.
C19_OneCooldownTimer ==
    /\ Len(timers) <= 1
    /\ isRestarting <=> timers # <<>>
    /\ timers # <<>> => timers[1] = lastRestartAt + config.RestartSleep
    /\ lastRestartAt >= 0 =>
         /\ now < lastRestartAt + config.RestartSleep => isRestarting
         /\ ~isRestarting => now >= lastRestartAt + config.RestartSleep
    /\ prevRestartAt >= 0 => lastRestartAt >= prevRestartAt + config.RestartSleep

\* a second cooldown is under way, the goroutine of the first one gone
C19_Witness ==
    /\ prevRestartAt >= 0
    /\ isRestarting
    /\ timers = <<lastRestartAt + config.RestartSleep>>
    /\ now > lastRestartAt

\* C20: two consecutive successful restarts are at least RestartSleep and
\* more than StallTimeout apart.  While restartContainer is being called
\* after an earlier successful restart, the cooldown of that restart is over
\* (RestartSleep has passed, isRestarting is false), lastProgressTime is not
\* before that restart, and the iteration found more than StallTimeout
\* passed since lastProgressTime.
C20_RestartsApart ==
    /\ prevRestartAt >= 0 =>
         /\ lastRestartAt - prevRestartAt >= config.RestartSleep
         /\ lastRestartAt - prevRestartAt > config.StallTimeout
    /\ (Restarting /\ lastRestartAt >= 0) =>
         /\ ~isRestarting
         /\ tick.recv >= lastRestartAt + config.RestartSleep
         /\ lastProgressTime >= lastRestartAt
         /\ tick.at - lastProgressTime > config.StallTimeout
         /\ now - lastRestartAt > config.StallTimeout

\* a second restart has succeeded right at the end of the cooldown of the
\* first, on a stall clock that ran through the cooldown
C20_Witness ==
    /\ prevRestartAt >= 0
    /\ tick.restart = "ok"
    /\ lastRestartAt - prevRestartAt = config.RestartSleep
    /\ config.RestartSleep > config.StallTimeout

====
